---- MODULE Spec2Model ----
(***************************************************************************)
(* Model of the input layer of the christmas-tree scene:                   *)
(*   - Index            (application state, gesture -> state table),       *)
(*   - useHandGesture   (hand input source: async init, detection loop),   *)
(*   - useMouseFallback (pointer input source: mouse and touch handlers).  *)
(*                                                                         *)
(* A handler is one action.  React commits the state a handler sets and    *)
(* re-runs the effects that depend on it before the next handler runs, so  *)
(* the commit (refs refreshed, effects cleaned up and re-run) is part of   *)
(* the action of the handler that caused it.                               *)
(*                                                                         *)
(* Lengths are in hundredths of the normalized landmark unit, times in     *)
(* milliseconds.  Only the horizontal axis of positions and the yaw angle  *)
(* are kept: the code treats the vertical axis / pitch angle identically.  *)
(***************************************************************************)
EXTENDS Integers, Sequences, FiniteSets, TLC

VARIABLES
  \* ---- Index ----
  treeState,            \* useState<TreeState>('tree')
  focusedPhotoIndex,    \* useState<number | null>(null)
  photoCount,           \* photos.length
  orbitRotation,        \* useState({x: 0, y: 0}), with the source that wrote it
  cameraPermission,     \* 'prompt' | 'granted' | 'denied' | 'requesting'
  appMounted,           \* Index is mounted
  \* ---- useHandGesture ----
  hg,                   \* useState<HandGestureState>: gesture, handPosition, isTracking
  status,               \* useState<string>('idle')
  lastGestureRef,       \* useRef<GestureType>('none')
  handLandmarkerRef,    \* run whose HandLandmarker the ref holds, 0 = null
  videoRef,             \* run whose <video> the ref holds, 0 = null
  animationFrameIdRef,  \* run that requested the last animation frame, 0 = null
  runs,                 \* one record per run of the enabling effect
  nRuns,                \* number of runs of the enabling effect so far
  \* ---- useMouseFallback ----
  isDragging,           \* useState(false)
  simulatedGesture,     \* useState<GestureType>('none')
  lastClickRef,         \* time of the last recorded press, 0 = none
  dragStartRef,         \* pointer position the drag delta is measured from
  rotationRef,          \* accumulated rotation
  isPinchingRef,        \* a pinch was emitted for the current chord
  lastTouchRef,         \* last single-touch position, or null
  initialPinchDistRef,  \* two-finger distance at touchstart, or null
  listeners,            \* window listeners attached, per event type
  \* ---- the platform ----
  now,                  \* Date.now()
  buttons,              \* mouse buttons held (MouseEvent.buttons)
  touches,              \* number of active touch points (TouchEvent.touches.length)
  \* ---- observation of the last handler ----
  op,                   \* the handler that ran last, and its inputs
  emitted,              \* the gesture-change events the last handler emitted
  lastHandEvent,        \* the gesture of the hand source's latest event, "-" = no event yet
  \* ---- detectGesture, called on its own ----
  landmarksArg,         \* the argument of the last call
  detected,             \* the gesture it returned
  \* ---- CameraController ----
  positionRef,          \* useRef(new THREE.Vector3(0, 2, 12)); camera.position is a copy
  targetRef,            \* useRef(new THREE.Vector3(0, 0, 0)): its y, x and z stay 0
  ribbonTimeRef,        \* useRef(0): the ribbon parameter t
  prevStateRef,         \* useRef<TreeState>(state)
  transitionDelayRef,   \* useRef(0)
  isAtStarRef,          \* useRef(false): reached focal point
  velocityRef,          \* useRef(0)
  smoothZoomRef,        \* useRef(0)
  starFocused,          \* the onStarFocused calls of the last frame, in order
  posTarget,            \* targetX, targetY, targetZ of the last frame
  frames,               \* frames rendered so far
  climbEdges,           \* onStarFocused(true) calls since the frames last saw tree entered
  lastSeen,             \* orbitRotation the last frame read, and the frame before's target
  chordPinches,         \* pinch events of the pointer source since the chord was engaged
  lastPress             \* the last press of a mouse button: button, time, whether it toggled

appVars == <<treeState, focusedPhotoIndex, photoCount, orbitRotation,
             cameraPermission, appMounted>>
handVars == <<hg, status, lastGestureRef, handLandmarkerRef, videoRef,
              animationFrameIdRef, runs, nRuns>>
pointerVars == <<isDragging, simulatedGesture, lastClickRef, dragStartRef, rotationRef,
                 isPinchingRef, lastTouchRef, initialPinchDistRef>>
platformVars == <<now, buttons, touches>>
classifyVars == <<landmarksArg, detected>>
cameraVars == <<positionRef, targetRef, ribbonTimeRef, prevStateRef, transitionDelayRef,
                isAtStarRef, velocityRef, smoothZoomRef, starFocused, posTarget, frames,
                climbEdges, lastSeen>>
sceneVars == <<classifyVars, cameraVars, chordPinches, lastPress>>
vars == <<appVars, handVars, pointerVars, listeners, platformVars, op, emitted,
          lastHandEvent, sceneVars>>

----------------------------------------------------------------------------
\* Bounds of the model

\* runs of the hand source's enabling effect (enable / disable cycles)
MaxRuns == 2
\* largest photo set the upload control hands over
MaxPhotos == 13
\* denominator of the grid Math.random() is drawn from
RandomDen == 16
\* ticks of the clock
MaxTicks == 3
\* largest accumulated rotation, in units of 0.002 rad
MaxRot == 2
\* largest number of simultaneous touch points
MaxTouches == 2
\* count of leaked listeners of one type above which they are no longer told apart
MaxLeak == 2
\* frames rendered
MaxFrames == 6
\* pinch events of one chord above which they are no longer counted
MaxPinches == 2
\* frames of the camera controller next to the pointer source
MaxDragFrames == 3

\* frames of two seconds the climb is checked with
MaxLongFrames == 2

----------------------------------------------------------------------------
\* Types

TreeStates == {"tree", "galaxy", "focus"}
Gestures == {"none", "fist", "open", "pinch"}

\* focusedPhotoIndex = null
NoPhoto == -1
\* handPosition = null
NoPos == -1

Min(a, b) == IF a < b THEN a ELSE b

----------------------------------------------------------------------------
\* Landmark snapshots (the detector's results), the inputs of the hand source

\* squared pinch threshold: 0.06 of the normalized unit, in hundredths, squared
PinchThresholdSq == 36

Point(x, y, z) == [x |-> x, y |-> y, z |-> z]

\* A hand of n landmarks whose palm is at horizontal position cx, whose thumb tip
\* is `gap` away from the index tip, and whose finger f is extended iff ext[f].
\* Landmarks are numbered from 0 as in the code.
TipOf == [f \in 1..4 |-> 4 * f + 4]
MkHand(n, cx, gap, ext) ==
  [k \in 0..(n - 1) |->
     IF k = 4 THEN Point(cx + gap, IF ext[1] THEN 40 ELSE 60, 0)
     ELSE IF \E f \in 1..4 : k = TipOf[f]
          THEN Point(cx, IF ext[CHOOSE f \in 1..4 : k = TipOf[f]] THEN 40 ELSE 60, 0)
          ELSE Point(cx, 50, 0)]

\* results of detectForVideo: a list of hands
NoHandResults == [landmarks |-> <<>>]
HandResults(h) == [landmarks |-> <<h>>]

\* palm positions: left and right of the middle of the frame
HandXs == {20, 80}
ExtPatterns == {<<FALSE, FALSE, FALSE, FALSE>>, <<TRUE, FALSE, FALSE, FALSE>>,
                <<TRUE, TRUE, FALSE, FALSE>>, <<TRUE, TRUE, TRUE, FALSE>>,
                <<TRUE, TRUE, TRUE, TRUE>>}
\* the snapshots fed to the detection loop: every gesture, at every palm position
Snapshots ==
  {NoHandResults} \cup
  {HandResults(MkHand(21, cx, gap, ext)) : cx \in HandXs, gap \in {5, 6}, ext \in ExtPatterns}
\* no hand, and an open hand
ArbSnapshots ==
  {NoHandResults, HandResults(MkHand(21, 80, 6, <<TRUE, TRUE, TRUE, TRUE>>))}
\* the least set of snapshots that exercises the loop: no hand, and a fist
LoopSnapshots ==
  {NoHandResults, HandResults(MkHand(21, 20, 6, <<FALSE, FALSE, FALSE, FALSE>>))}

\* calculateFingerDistance, squared (the code compares its square root with 0.06)
calculateFingerDistanceSq(landmarks, finger1, finger2) ==
  LET p1 == landmarks[finger1]
      p2 == landmarks[finger2]
  IN (p1.x - p2.x) * (p1.x - p2.x) + (p1.y - p2.y) * (p1.y - p2.y)
       + (p1.z - p2.z) * (p1.z - p2.z)

NumLandmarks(landmarks) == Cardinality(DOMAIN landmarks)

\* landmarks = null or undefined
NullLandmarks == [k \in {-1} |-> "null"]

\* a classifier that tests the fingers before the pinch distance
detectGestureFingersFirst(landmarks) ==
  IF landmarks = NullLandmarks \/ NumLandmarks(landmarks) < 21 THEN "none"
  ELSE LET extendedCount ==
             Cardinality({f \in 1..4 : landmarks[4 * f + 4].y < landmarks[4 * f + 1].y})
       IN IF extendedCount >= 3 THEN "open"
          ELSE IF extendedCount <= 1 THEN "fist"
          ELSE IF calculateFingerDistanceSq(landmarks, 4, 8) < PinchThresholdSq
               THEN "pinch" ELSE "none"

detectGesture(landmarks) ==
  IF landmarks = NullLandmarks \/ NumLandmarks(landmarks) < 21 THEN "none"
  ELSE IF calculateFingerDistanceSq(landmarks, 4, 8) < PinchThresholdSq THEN "pinch"
  ELSE LET indexExtended == landmarks[8].y < landmarks[5].y
           middleExtended == landmarks[12].y < landmarks[9].y
           ringExtended == landmarks[16].y < landmarks[13].y
           pinkyExtended == landmarks[20].y < landmarks[17].y
           extendedCount ==
             Cardinality({i \in 1..4 :
               <<indexExtended, middleExtended, ringExtended, pinkyExtended>>[i]})
       IN IF extendedCount >= 3 THEN "open"
          ELSE IF extendedCount <= 1 THEN "fist"
          ELSE "none"

\* the arguments detectGesture is called with on its own: null, and hands of 20,
\* 21 and 22 landmarks with every pattern of extended fingers, with the thumb tip
\* nearer to the index tip than 0.06, at 0.06 and farther
AllExtPatterns == [1..4 -> BOOLEAN]
ClassifierInputs ==
  {NullLandmarks} \cup
  {MkHand(n, 50, gap, ext) : n \in 20..22, gap \in {0, 5, 6, 30}, ext \in AllExtPatterns}

\* handPosition.x = 1 - (palmBase.x + middleFingerMcp.x) / 2
HandPositionOf(landmarks) == 100 - ((landmarks[0].x + landmarks[9].x) \div 2)

----------------------------------------------------------------------------
\* Index: the application state machine

\* photos: the twelve bundled photos
InitialPhotoCount == 12
\* Math.min(photoCount, 12)
MaxCandidates == 12
\* currentPhotos.length > 0 ? currentPhotos.length : 12
FallbackPhotoCount == 12

\* Math.random() is drawn from {k / RandomDen}: its least value 0 and its greatest
\* value below 1 on that grid
RandomNumerators == {0, RandomDen - 1}

\* the index without the cap of 12 candidates
RandomIndexUncapped(r, n) ==
  LET count == IF n > 0 THEN n ELSE FallbackPhotoCount
  IN (r * count) \div RandomDen

\* Math.floor(random * Math.min(photoCount, 12)) for random = r / RandomDen and
\* photoCount = currentPhotos.length > 0 ? currentPhotos.length : 12
RandomIndex(r, n) ==
  LET count == IF n > 0 THEN n ELSE FallbackPhotoCount
  IN (r * Min(count, MaxCandidates)) \div RandomDen

\* a table in which pinch selects a photo in tree as well
GestureNextStatePinchFocuses(s, g) ==
  CASE g = "fist" -> "tree"
    [] g = "open" -> "galaxy"
    [] g = "pinch" /\ s # "focus" -> "focus"
    [] g = "pinch" /\ s = "focus" -> "galaxy"
    [] OTHER -> s

\* the state handleGestureChange sets for gesture g in state s
GestureNextState(s, g) ==
  CASE g = "fist" -> "tree"
    [] g = "open" -> "galaxy"
    [] g = "pinch" /\ s = "galaxy" -> "focus"
    [] g = "pinch" /\ s = "focus" -> "galaxy"
    [] OTHER -> s

\* handleGestureChange: sets treeState and focusedPhotoIndex
handleGestureChange(g) ==
  /\ treeState' = GestureNextState(treeState, g)
  /\ CASE g \in {"fist", "open"} -> focusedPhotoIndex' = NoPhoto
       [] g = "pinch" /\ treeState = "galaxy" ->
            \E r \in RandomNumerators :
              focusedPhotoIndex' = RandomIndex(r, photoCount)
       [] g = "pinch" /\ treeState = "focus" -> focusedPhotoIndex' = NoPhoto
       [] OTHER -> focusedPhotoIndex' = focusedPhotoIndex

\* setOrbitRotation from the hand position: y = (handPosition.x - 0.5) * 2 PI
HandOrbit(pos) == [by |-> "hand", val |-> pos - 50]

\* The effect "Update orbit from hand position": it runs when handPosition (a new
\* object after every snapshot with a hand), isTracking or treeState changed.
\* base is the orbit rotation the handler itself left.
OrbitEffect(newPosition, base) ==
  IF /\ newPosition \/ hg'.isTracking # hg.isTracking \/ treeState' # treeState
     /\ hg'.isTracking /\ hg'.handPosition # NoPos /\ treeState' = "galaxy"
  THEN HandOrbit(hg'.handPosition)
  ELSE base

----------------------------------------------------------------------------
\* useMouseFallback: binding of the window listeners

NamedTypes == {"mousedown", "mousemove", "mouseup", "touchstart", "touchmove", "touchend"}
ListenerTypes == NamedTypes \cup {"contextmenu"}

\* a pointer source that is enabled whatever the hand source reports
PointerAlwaysEnabled(h) == TRUE

\* enabled: !handGesture.isTracking
PointerEnabled(h) == ~h.isTracking

\* the effect's body: addEventListener for every type when enabled
AttachListeners(en, L) ==
  IF en
  THEN [t \in ListenerTypes |->
          IF t = "contextmenu" THEN Min(L[t] + 1, MaxLeak) ELSE L[t] + 1]
  ELSE L

\* the effect's cleanup: removeEventListener finds the named handlers it added;
\* for contextmenu it passes a new arrow function, which matches no listener
DetachListeners(wasEn, L) ==
  IF wasEn
  THEN [t \in ListenerTypes |-> IF t \in NamedTypes THEN L[t] - 1 ELSE L[t]]
  ELSE L

\* The binding effect re-runs when enabled or one of the handlers changed; the
\* handlers change with enabled, currentState, isDragging and simulatedGesture.
PointerEffect ==
  IF \/ PointerEnabled(hg') # PointerEnabled(hg)
     \/ treeState' # treeState
     \/ isDragging' # isDragging
     \/ simulatedGesture' # simulatedGesture
  THEN AttachListeners(PointerEnabled(hg'), DetachListeners(PointerEnabled(hg), listeners))
  ELSE listeners

\* The commit that follows a handler: the effects of Index and of the pointer
\* source.  orbit is the orbit rotation the handler itself set.
Commit(newPosition, orbit) ==
  /\ orbitRotation' = OrbitEffect(newPosition, orbit)
  /\ listeners' = IF appMounted THEN PointerEffect ELSE listeners
  /\ lastHandEvent' = IF emitted' # <<>> /\ emitted'[1].src = "hand"
                      THEN emitted'[1].g ELSE lastHandEvent

----------------------------------------------------------------------------
\* useHandGesture: the hand input source

Runs == 1..MaxRuns

NoRun == [pc |-> "none", mounted |-> FALSE, stream |-> "none", lm |-> "none",
          video |-> "none", tracking |-> FALSE]

\* the run whose effect is live (enabled and not cleaned up), 0 = none
LiveRun == IF appMounted /\ cameraPermission = "granted" THEN nRuns ELSE 0

\* setStatus / setState of an unmounted component are dropped
SetStatus(v) == status' = IF appMounted THEN v ELSE status
SetHg(v) == hg' = IF appMounted THEN v ELSE hg

\* the effect's body when enabled: a new run, initHandLandmarker() up to its first await
StartRun(rs, n) ==
  [rs EXCEPT ![n] = [pc |-> "vision", mounted |-> TRUE, stream |-> "none",
                     lm |-> "none", video |-> "none", tracking |-> hg.isTracking]]

\* the effect's cleanup of run i
CleanupRun(rs, i) ==
  [j \in Runs |->
     LET r0 == rs[j]
         \* mounted = false
         r1 == IF j = i THEN [r0 EXCEPT !.mounted = FALSE] ELSE r0
         \* cancelAnimationFrame(animationFrameIdRef.current)
         r2 == IF animationFrameIdRef = j /\ r1.pc = "loop"
               THEN [r1 EXCEPT !.pc = "ended"] ELSE r1
         \* videoRef.current: pause, srcObject = null, remove
         r3 == IF videoRef = j THEN [r2 EXCEPT !.video = "removed"] ELSE r2
         \* stream.getTracks().forEach(track => track.stop())
         r4 == IF j = i /\ r3.stream # "none" THEN [r3 EXCEPT !.stream = "stopped"] ELSE r3
         \* handLandmarkerRef.current.close()
         r5 == IF handLandmarkerRef = j THEN [r4 EXCEPT !.lm = "closed"] ELSE r4
     IN r5]

\* an event for every snapshot with a hand (level-triggered)
GestureChangedAlways(detectedGesture, last) == TRUE

\* detectedGesture !== lastGestureRef.current
GestureChanged(detectedGesture, last) == detectedGesture # last

\* processResults of run i on the detector's results
processResults(i, results) ==
  IF Len(results.landmarks) > 0
  THEN LET landmarks == results.landmarks[1]
           detectedGesture == detectGesture(landmarks)
       IN /\ IF GestureChanged(detectedGesture, lastGestureRef)
             THEN /\ lastGestureRef' = detectedGesture
                  /\ handleGestureChange(detectedGesture)
                  /\ emitted' = <<[src |-> "hand", g |-> detectedGesture]>>
             ELSE /\ UNCHANGED <<lastGestureRef, treeState, focusedPhotoIndex>>
                  /\ emitted' = <<>>
          /\ hg' = [isTracking |-> TRUE, gesture |-> detectedGesture,
                    handPosition |-> HandPositionOf(landmarks)]
  ELSE /\ UNCHANGED <<lastGestureRef, treeState, focusedPhotoIndex>>
       /\ emitted' = <<>>
       \* state.isTracking is the value the effect's closure captured
       /\ IF runs[i].tracking
          THEN hg' = [hg EXCEPT !.isTracking = FALSE, !.gesture = "none"]
          ELSE hg' = hg

HasHand(results) == Len(results.landmarks) > 0

\* detectFrame of run i; vref is videoRef.current when it runs, rs the runs then.
\* ready: videoRef.current.readyState >= 2
detectFrame(i, rs, vref, ready, results) ==
  IF ~rs[i].mounted \/ vref = 0 \/ handLandmarkerRef = 0
  THEN /\ runs' = [rs EXCEPT ![i].pc = "ended"]
       /\ UNCHANGED <<lastGestureRef, treeState, focusedPhotoIndex, hg, animationFrameIdRef>>
       /\ emitted' = <<>>
       /\ Commit(FALSE, orbitRotation)
  ELSE /\ IF ready
          THEN processResults(i, results)
          ELSE /\ UNCHANGED <<lastGestureRef, treeState, focusedPhotoIndex, hg>>
               /\ emitted' = <<>>
       \* requestAnimationFrame(detectFrame)
       /\ animationFrameIdRef' = i
       /\ runs' = [rs EXCEPT ![i].pc = "loop"]
       /\ Commit(ready /\ HasHand(results), orbitRotation)

\* a video can have data (readyState >= 2) when it is in the document and was
\* given a stream; whether stopping the tracks of the stream takes the data away
\* is the platform's choice
VideoReady(rs, vref) == vref # 0 /\ rs[vref].video = "attached" /\ rs[vref].stream # "none"

\* what is recorded of the handler that ran last
\* snap: "skip" (no snapshot processed), "nohand" or "hand" (processResults ran)
\* button: MouseEvent.button of a mouse handler, -1 otherwise
\* delta: the frame delta of useFrame in milliseconds, 0 otherwise
Op(h) == [h |-> h, run |-> 0, snap |-> "skip", button |-> -1, delta |-> 0]

\* what detectFrame of run i does with the detector's results
SnapOf(rs, i, vref, ready, results) ==
  IF ~rs[i].mounted \/ vref = 0 \/ handLandmarkerRef = 0 \/ ~ready THEN "skip"
  ELSE IF HasHand(results) THEN "hand" ELSE "nohand"

\* handleRequestCamera up to its await; leaving 'granted' disables the hand source
RequestCamera ==
  /\ UNCHANGED sceneVars
  /\ appMounted /\ cameraPermission # "requesting"
  /\ cameraPermission' = "requesting"
  /\ runs' = IF LiveRun # 0 THEN CleanupRun(runs, LiveRun) ELSE runs
  /\ op' = Op("handleRequestCamera")
  /\ emitted' = <<>>
  /\ UNCHANGED <<treeState, focusedPhotoIndex, photoCount, appMounted, hg, status,
                 lastGestureRef, handLandmarkerRef, videoRef, animationFrameIdRef, nRuns,
                 pointerVars, platformVars>>
  /\ Commit(FALSE, orbitRotation)

\* getUserMedia resolved in handleRequestCamera: the hand source is enabled and its
\* effect starts a run
CameraGranted ==
  /\ UNCHANGED sceneVars
  /\ appMounted /\ cameraPermission = "requesting"
  /\ nRuns < MaxRuns
  /\ cameraPermission' = "granted"
  /\ nRuns' = nRuns + 1
  /\ runs' = StartRun(runs, nRuns + 1)
  /\ status' = "loading-model"
  /\ op' = [Op("cameraGranted") EXCEPT !.run = nRuns + 1]
  /\ emitted' = <<>>
  /\ UNCHANGED <<treeState, focusedPhotoIndex, photoCount, appMounted, hg,
                 lastGestureRef, handLandmarkerRef, videoRef, animationFrameIdRef,
                 pointerVars, platformVars>>
  /\ Commit(FALSE, orbitRotation)

\* getUserMedia rejected in handleRequestCamera
CameraDenied ==
  /\ UNCHANGED sceneVars
  /\ appMounted /\ cameraPermission = "requesting"
  /\ cameraPermission' = "denied"
  /\ op' = Op("cameraDenied")
  /\ emitted' = <<>>
  /\ UNCHANGED <<treeState, focusedPhotoIndex, photoCount, appMounted, handVars,
                 pointerVars, platformVars>>
  /\ Commit(FALSE, orbitRotation)

\* await FilesetResolver.forVisionTasks resolved
InitVisionOk(i) ==
  /\ UNCHANGED sceneVars
  /\ runs[i].pc = "vision"
  /\ runs' = [runs EXCEPT ![i].pc = "model"]
  /\ op' = [Op("initVision") EXCEPT !.run = i]
  /\ emitted' = <<>>
  /\ UNCHANGED <<appVars, hg, status, lastGestureRef, handLandmarkerRef, videoRef,
                 animationFrameIdRef, nRuns, pointerVars, listeners, platformVars, lastHandEvent>>

\* await HandLandmarker.createFromOptions resolved
InitModelOk(i) ==
  /\ UNCHANGED sceneVars
  /\ runs[i].pc = "model"
  /\ runs' = [runs EXCEPT ![i].pc = "camera", ![i].lm = "open"]
  /\ handLandmarkerRef' = i
  /\ SetStatus("requesting-camera")
  /\ op' = [Op("initModel") EXCEPT !.run = i]
  /\ emitted' = <<>>
  /\ UNCHANGED <<appVars, hg, lastGestureRef, videoRef, animationFrameIdRef, nRuns,
                 pointerVars, listeners, platformVars, lastHandEvent>>

\* await getUserMedia resolved: the run holds a live stream and a new <video>
InitCameraOk(i) ==
  /\ UNCHANGED sceneVars
  /\ runs[i].pc = "camera"
  /\ runs' = [runs EXCEPT ![i].pc = "play", ![i].stream = "live", ![i].video = "created"]
  /\ op' = [Op("initCamera") EXCEPT !.run = i]
  /\ emitted' = <<>>
  /\ UNCHANGED <<appVars, hg, status, lastGestureRef, handLandmarkerRef, videoRef,
                 animationFrameIdRef, nRuns, pointerVars, listeners, platformVars, lastHandEvent>>

\* video.play() resolved: the video is published, status is 'active' and
\* detectFrame() runs for the first time
InitPlayOk(i, snapshots) ==
  /\ UNCHANGED sceneVars
  /\ runs[i].pc = "play"
  /\ videoRef' = i
  /\ SetStatus("active")
  /\ UNCHANGED <<photoCount, cameraPermission, appMounted, handLandmarkerRef, nRuns,
                 pointerVars, platformVars>>
  /\ LET rs == [runs EXCEPT ![i].video = "attached"]
     IN \E ready \in BOOLEAN, results \in snapshots :
          /\ ready => VideoReady(rs, i)
          /\ ~ready => results = NoHandResults
          /\ detectFrame(i, rs, i, ready, results)
          /\ op' = [Op("initPlay") EXCEPT !.run = i,
                                           !.snap = SnapOf(rs, i, i, ready, results)]

\* the animation-frame callback of run i
DetectFrame(i, snapshots) ==
  /\ UNCHANGED sceneVars
  /\ runs[i].pc = "loop"
  /\ UNCHANGED <<photoCount, cameraPermission, appMounted, status, handLandmarkerRef,
                 videoRef, nRuns, pointerVars, platformVars>>
  /\ \E ready \in BOOLEAN, results \in snapshots :
       /\ ready => VideoReady(runs, videoRef)
       /\ ~ready => results = NoHandResults
       /\ detectFrame(i, runs, videoRef, ready, results)
       /\ op' = [Op("detectFrame") EXCEPT !.run = i,
                                           !.snap = SnapOf(runs, i, videoRef, ready, results)]

\* the catch block without its setStatus('error')
InitFailSilent(i) ==
  /\ UNCHANGED sceneVars
  /\ runs[i].pc \in {"vision", "model", "camera"}
  /\ runs' = [runs EXCEPT ![i].pc = "error"]
  /\ SetHg([hg EXCEPT !.isTracking = FALSE])
  /\ op' = [Op("initFail") EXCEPT !.run = i]
  /\ emitted' = <<>>
  /\ UNCHANGED <<treeState, focusedPhotoIndex, photoCount, cameraPermission, appMounted,
                 status, lastGestureRef, handLandmarkerRef, videoRef, animationFrameIdRef,
                 nRuns, pointerVars, platformVars>>
  /\ Commit(FALSE, orbitRotation)

\* one of the awaited promises of initHandLandmarker rejected: the catch block
InitFail(i) ==
  /\ UNCHANGED sceneVars
  /\ runs[i].pc \in {"vision", "model", "camera"}
  /\ runs' = [runs EXCEPT ![i].pc = "error"]
  /\ SetStatus("error")
  /\ SetHg([hg EXCEPT !.isTracking = FALSE])
  /\ op' = [Op("initFail") EXCEPT !.run = i]
  /\ emitted' = <<>>
  /\ UNCHANGED <<treeState, focusedPhotoIndex, photoCount, cameraPermission, appMounted,
                 lastGestureRef, handLandmarkerRef, videoRef, animationFrameIdRef, nRuns,
                 pointerVars, platformVars>>
  /\ Commit(FALSE, orbitRotation)

\* Index unmounts: every effect is cleaned up
Unmount ==
  /\ UNCHANGED sceneVars
  /\ appMounted
  /\ appMounted' = FALSE
  /\ runs' = IF LiveRun # 0 THEN CleanupRun(runs, LiveRun) ELSE runs
  /\ listeners' = DetachListeners(PointerEnabled(hg), listeners)
  /\ op' = Op("unmount")
  /\ emitted' = <<>>
  /\ UNCHANGED <<treeState, focusedPhotoIndex, photoCount, orbitRotation, cameraPermission,
                 hg, status, lastGestureRef, handLandmarkerRef, videoRef,
                 animationFrameIdRef, nRuns, pointerVars, platformVars, lastHandEvent>>

----------------------------------------------------------------------------
\* the clock starts well past the double-click window, as Date.now() does
StartTime == 1000

----------------------------------------------------------------------------
\* useMouseFallback: the pointer input source

\* timeSinceLastClick < 300
DoubleClickMs == 300
\* delta > 15
PinchDeltaPx == 15
\* rotation per pixel, in units of 0.002 rad: 0.002 for the mouse
MouseGain == 1
\* rotation per pixel, in units of 0.002 rad: 0.004 for touch
TouchGain == 2
\* resolution of the clock
TickMs == 150

\* pointer positions (clientX, in pixels) and two-finger distances (in pixels)
Xs == {0, 1}
Dists == {100, 115, 116}
\* MouseEvent.button: primary, secondary
Buttons == {0, 2}
\* the bit of a button in MouseEvent.buttons
ButtonBit(b) == IF b = 0 THEN 1 ELSE 2
Held(b) == (buttons \div ButtonBit(b)) % 2 = 1

Abs(a) == IF a < 0 THEN -a ELSE a

\* a shortcut that toggles between tree and galaxy only
DoubleClickStateToggle(s) == IF s = "tree" THEN "galaxy" ELSE "tree"

\* the state the double-click shortcut hands to onStateChange
DoubleClickState(s) ==
  IF s # "focus" THEN (IF s = "tree" THEN "galaxy" ELSE "tree") ELSE "galaxy"

\* e.button === 0 && timeSinceLastClick < 300
IsDoubleClick(button, timeSinceLastClick) ==
  button = 0 /\ timeSinceLastClick < DoubleClickMs

\* onGestureChange?.('pinch') with the bookkeeping of the observation
EmitPinch ==
  /\ handleGestureChange("pinch")
  /\ emitted' = <<[src |-> "pointer", g |-> "pinch"]>>

NoEmit == emitted' = <<>> /\ UNCHANGED <<treeState, focusedPhotoIndex>>

\* a drag that forwards its 'open' as a gesture-change event
ShowAndEmitOpen ==
  /\ simulatedGesture' = "open"
  /\ handleGestureChange("open")
  /\ emitted' = <<[src |-> "pointer", g |-> "open"]>>

\* setSimulatedGesture('open') at the start of a drag: shown, not forwarded
ShowOpen == simulatedGesture' = "open" /\ NoEmit

\* the pinch events of one chord, counted up to MaxPinches
CountPinch(n) == IF emitted' # <<>> THEN Min(MaxPinches, n + 1) ELSE n

PointerOrbit(rot) == [by |-> "pointer", val |-> rot]

\* handleMouseDown for e.button = button, e.buttons = ebuttons, e.clientX = x
handleMouseDown(button, ebuttons, x) ==
  IF ~PointerEnabled(hg)
  THEN NoEmit /\ UNCHANGED pointerVars
  ELSE IF ebuttons = 3
  THEN /\ IF ~isPinchingRef
          THEN simulatedGesture' = "pinch" /\ EmitPinch
          ELSE simulatedGesture' = simulatedGesture /\ NoEmit
       /\ isPinchingRef' = TRUE
       /\ lastClickRef' = 0
       /\ UNCHANGED <<isDragging, dragStartRef, rotationRef, lastTouchRef,
                      initialPinchDistRef>>
  ELSE IF IsDoubleClick(button, now - lastClickRef)
  THEN /\ treeState' = DoubleClickState(treeState)
       /\ focusedPhotoIndex' = focusedPhotoIndex
       /\ emitted' = <<>>
       /\ lastClickRef' = 0
       /\ UNCHANGED <<isDragging, simulatedGesture, dragStartRef, rotationRef,
                      isPinchingRef, lastTouchRef, initialPinchDistRef>>
  ELSE /\ lastClickRef' = now
       /\ isDragging' = TRUE
       /\ dragStartRef' = x
       /\ ShowOpen
       /\ UNCHANGED <<rotationRef, isPinchingRef, lastTouchRef, initialPinchDistRef>>

\* a drag that rotates in every application state
DragRotatesAnyState(dragging, ebuttons, state) == dragging /\ ebuttons = 1

\* isDragging && e.buttons === 1 && currentState !== 'focus'
DragRotates(dragging, ebuttons, state) == dragging /\ ebuttons = 1 /\ state # "focus"

\* handleMouseMove for e.buttons = ebuttons, e.clientX = x; sets orbit' to the
\* rotation handed to onOrbitChange, or to the current one
handleMouseMove(ebuttons, x, orbit) ==
  /\ NoEmit
  /\ IF ~PointerEnabled(hg)
     THEN UNCHANGED pointerVars /\ orbit = orbitRotation
     ELSE IF ebuttons = 3
     THEN /\ simulatedGesture' = "pinch"
          /\ orbit = orbitRotation
          /\ UNCHANGED <<isDragging, lastClickRef, dragStartRef, rotationRef,
                         isPinchingRef, lastTouchRef, initialPinchDistRef>>
     ELSE IF DragRotates(isDragging, ebuttons, treeState)
     THEN /\ simulatedGesture' = "open"
          /\ rotationRef' = rotationRef + (x - dragStartRef) * MouseGain
          /\ orbit = PointerOrbit(rotationRef')
          /\ dragStartRef' = x
          /\ UNCHANGED <<isDragging, lastClickRef, isPinchingRef, lastTouchRef,
                         initialPinchDistRef>>
     ELSE UNCHANGED pointerVars /\ orbit = orbitRotation

\* handleMouseUp for e.buttons = ebuttons, e.clientX = x
handleMouseUp(ebuttons, x) ==
  /\ NoEmit
  /\ isPinchingRef' = IF ebuttons # 3 THEN FALSE ELSE isPinchingRef
  /\ IF ebuttons = 0
     THEN isDragging' = FALSE /\ simulatedGesture' = "none" /\ UNCHANGED dragStartRef
     ELSE IF ebuttons = 1
     THEN simulatedGesture' = "open" /\ dragStartRef' = x /\ UNCHANGED isDragging
     ELSE UNCHANGED <<isDragging, simulatedGesture, dragStartRef>>
  /\ UNCHANGED <<lastClickRef, rotationRef, lastTouchRef, initialPinchDistRef>>

\* handleTouchStart for e.touches.length = n, first touch at x, two-finger distance dist
handleTouchStart(n, x, dist) ==
  /\ NoEmit
  /\ IF ~PointerEnabled(hg)
     THEN UNCHANGED pointerVars
     ELSE IF n = 1
     THEN /\ lastTouchRef' = x
          /\ simulatedGesture' = "open"
          /\ UNCHANGED <<isDragging, lastClickRef, dragStartRef, rotationRef,
                         isPinchingRef, initialPinchDistRef>>
     ELSE IF n = 2
     THEN /\ initialPinchDistRef' = dist
          /\ simulatedGesture' = "pinch"
          /\ UNCHANGED <<isDragging, lastClickRef, dragStartRef, rotationRef,
                         isPinchingRef, lastTouchRef>>
     ELSE UNCHANGED pointerVars

\* a ref that holds null or 0 is falsy
Truthy(v) == v # NoPos /\ v # 0

\* handleTouchMove for e.touches.length = n, first touch at x, two-finger distance dist
handleTouchMove(n, x, dist, orbit) ==
  IF ~PointerEnabled(hg)
  THEN NoEmit /\ UNCHANGED pointerVars /\ orbit = orbitRotation
  ELSE IF n = 1 /\ treeState # "focus" /\ lastTouchRef # NoPos
  THEN /\ NoEmit
       /\ rotationRef' = rotationRef + (x - lastTouchRef) * TouchGain
       /\ orbit = PointerOrbit(rotationRef')
       /\ lastTouchRef' = x
       /\ simulatedGesture' = "open"
       /\ UNCHANGED <<isDragging, lastClickRef, dragStartRef, isPinchingRef,
                      initialPinchDistRef>>
  ELSE IF n = 2 /\ Truthy(initialPinchDistRef)
          /\ Abs(dist - initialPinchDistRef) > PinchDeltaPx
  THEN /\ IF ~isPinchingRef
          THEN EmitPinch /\ isPinchingRef' = TRUE /\ initialPinchDistRef' = dist
          ELSE NoEmit /\ UNCHANGED <<isPinchingRef, initialPinchDistRef>>
       /\ simulatedGesture' = "pinch"
       /\ orbit = orbitRotation
       /\ UNCHANGED <<isDragging, lastClickRef, dragStartRef, rotationRef, lastTouchRef>>
  ELSE NoEmit /\ UNCHANGED pointerVars /\ orbit = orbitRotation

\* handleTouchEnd for e.touches.length = n, first remaining touch at x
handleTouchEnd(n, x) ==
  /\ NoEmit
  /\ IF n = 0
     THEN /\ simulatedGesture' = "none"
          /\ lastTouchRef' = NoPos
          /\ initialPinchDistRef' = NoPos
          /\ isPinchingRef' = FALSE
     ELSE IF n = 1
     THEN /\ simulatedGesture' = "open"
          /\ lastTouchRef' = x
          /\ isPinchingRef' = FALSE
          /\ UNCHANGED initialPinchDistRef
     ELSE UNCHANGED <<simulatedGesture, lastTouchRef, initialPinchDistRef, isPinchingRef>>
  /\ UNCHANGED <<isDragging, lastClickRef, dragStartRef, rotationRef>>

\* a platform event of type t reaches the pointer source iff its listener is attached
Attached(t) == listeners[t] > 0
Unhandled == NoEmit /\ UNCHANGED pointerVars

InRange(rot) == -MaxRot <= rot /\ rot <= MaxRot

pointerFrame == <<photoCount, cameraPermission, appMounted, handVars>>

\* the step set the application state directly, without a gesture-change event
Toggled == treeState' # treeState /\ emitted' = <<>>

\* the user presses mouse button b at x
MouseDown(b, x) ==
  /\ UNCHANGED <<classifyVars, cameraVars>>
  /\ ~Held(b)
  /\ buttons' = buttons + ButtonBit(b)
  /\ UNCHANGED <<now, touches, pointerFrame>>
  /\ IF Attached("mousedown")
     THEN handleMouseDown(b, buttons', x) /\ op' = [Op("handleMouseDown") EXCEPT !.button = b]
     ELSE Unhandled /\ op' = Op("unhandled")
  /\ chordPinches' = [chordPinches EXCEPT !.mouse = CountPinch(@)]
  /\ lastPress' = [button |-> b, at |-> now, toggled |-> Toggled]
  /\ Commit(FALSE, orbitRotation)

\* the user moves the mouse to x
MouseMove(x) ==
  /\ UNCHANGED <<classifyVars, cameraVars, lastPress>>
  /\ UNCHANGED <<platformVars, pointerFrame>>
  /\ \E orbit \in {orbitRotation} \cup {PointerOrbit(r) : r \in -MaxRot..MaxRot} :
       /\ IF Attached("mousemove")
          THEN handleMouseMove(buttons, x, orbit) /\ op' = Op("handleMouseMove")
          ELSE Unhandled /\ orbit = orbitRotation /\ op' = Op("unhandled")
       /\ InRange(rotationRef')
       /\ UNCHANGED chordPinches
       /\ Commit(FALSE, orbit)

\* the user releases mouse button b at x
MouseUp(b, x) ==
  /\ UNCHANGED <<classifyVars, cameraVars, lastPress>>
  /\ Held(b)
  /\ buttons' = buttons - ButtonBit(b)
  /\ UNCHANGED <<now, touches, pointerFrame>>
  /\ IF Attached("mouseup")
     THEN handleMouseUp(buttons', x) /\ op' = [Op("handleMouseUp") EXCEPT !.button = b]
     ELSE Unhandled /\ op' = Op("unhandled")
  /\ chordPinches' = [chordPinches EXCEPT !.mouse = IF buttons' = 3 THEN @ ELSE 0]
  /\ Commit(FALSE, orbitRotation)

\* one more finger touches the screen
TouchStart(x, dist) ==
  /\ UNCHANGED <<classifyVars, cameraVars, lastPress>>
  /\ touches < MaxTouches
  /\ touches' = touches + 1
  /\ UNCHANGED <<now, buttons, pointerFrame>>
  /\ IF Attached("touchstart")
     THEN handleTouchStart(touches', x, dist) /\ op' = Op("handleTouchStart")
     ELSE Unhandled /\ op' = Op("unhandled")
  /\ UNCHANGED chordPinches
  /\ Commit(FALSE, orbitRotation)

\* the fingers move
TouchMove(x, dist) ==
  /\ UNCHANGED <<classifyVars, cameraVars, lastPress>>
  /\ touches > 0
  /\ UNCHANGED <<platformVars, pointerFrame>>
  /\ \E orbit \in {orbitRotation} \cup {PointerOrbit(r) : r \in -MaxRot..MaxRot} :
       /\ IF Attached("touchmove")
          THEN handleTouchMove(touches, x, dist, orbit) /\ op' = Op("handleTouchMove")
          ELSE Unhandled /\ orbit = orbitRotation /\ op' = Op("unhandled")
       /\ InRange(rotationRef')
       /\ chordPinches' = [chordPinches EXCEPT !.touch = CountPinch(@)]
       /\ Commit(FALSE, orbit)

\* one finger leaves the screen
TouchEnd(x) ==
  /\ UNCHANGED <<classifyVars, cameraVars, lastPress>>
  /\ touches > 0
  /\ touches' = touches - 1
  /\ UNCHANGED <<now, buttons, pointerFrame>>
  /\ IF Attached("touchend")
     THEN handleTouchEnd(touches', x) /\ op' = Op("handleTouchEnd")
     ELSE Unhandled /\ op' = Op("unhandled")
  /\ chordPinches' = [chordPinches EXCEPT !.touch = IF touches' >= 2 THEN @ ELSE 0]
  /\ Commit(FALSE, orbitRotation)

\* time passes
Tick ==
  /\ UNCHANGED sceneVars
  /\ now < StartTime + MaxTicks * TickMs
  /\ now' = now + TickMs
  /\ op' = Op("tick")
  /\ emitted' = <<>>
  /\ UNCHANGED <<appVars, handVars, pointerVars, listeners, buttons, touches,
                 lastHandEvent>>

----------------------------------------------------------------------------
\* CameraController: the frame callback of the scene
\*
\* Lengths are in thousandths of a scene unit, t in ten-thousandths, velocities in
\* ten-thousandths per second, times in milliseconds, factors in thousandths.
\* Of the orbit rotation only the yaw (y) is kept, so sin(orbitRotation.x) is 0.

\* t = 1
TOne == 10000

Max(a, b) == IF a > b THEN a ELSE b

\* Math.sin(h * Math.PI) in thousandths, for h in ten-thousandths: Bhaskara's
\* rational approximation on a half turn (error below 0.002), continued as the
\* sine is: odd and of period 2
SinHalfTurns(h) ==
  LET m == h % (2 * TOne)
      a == IF m < TOne THEN m ELSE m - TOne
      p == a * (TOne - a)
      v == (16 * p) \div ((5 * TOne * TOne - 4 * p) \div 1000)
  IN IF m < TOne THEN v ELSE -v

CosHalfTurns(h) == SinHalfTurns(h + TOne \div 2)

\* Math.sin / Math.cos of orbitRotation.y.  The pointer source counts the yaw in
\* steps of 0.002 rad (0.6366 ten-thousandths of a half turn), the hand source
\* in hundredths of a full turn.
OrbitHalfTurns(orbit) ==
  IF orbit.by = "hand" THEN orbit.val * 200
  ELSE IF orbit.by = "pointer" THEN (orbit.val * 6366) \div 1000
  ELSE 0
OrbitSin(orbit) == SinHalfTurns(OrbitHalfTurns(orbit))
OrbitCos(orbit) == CosHalfTurns(OrbitHalfTurns(orbit))

\* the ribbon: ribbonY = t * 7 - 7 / 2 + 0.3, layerRadius = 3 * (1 - t * 0.88) + 0.15,
\* angle = t * 6 PI
RibbonY(t) == (7 * t) \div 10 - 3200
LayerRadius(t) == 3000 - (264 * t) \div 1000 + 150
RibbonPoint(t) ==
  [x |-> (CosHalfTurns(6 * t) * LayerRadius(t)) \div 1000,
   y |-> RibbonY(t),
   z |-> (SinHalfTurns(6 * t) * LayerRadius(t)) \div 1000]

\* for (let t = 0; t <= 1; t += 0.02): in double arithmetic the 51st value is
\* 1.0000000000000004, so the loop visits 0, 0.02, ..., 0.98
GridSteps == 0..49
GridT(k) == 200 * k

\* the squared distance, in hundredths (Math.sqrt is monotone)
DistanceSq(p, q) ==
  LET dx == (p.x - q.x) \div 10
      dy == (p.y - q.y) \div 10
      dz == (p.z - q.z) \div 10
  IN dx * dx + dy * dy + dz * dz

\* let minDistance = Infinity: above every squared distance of the model
Infinity == 2147483647

\* the loop of findNearestRibbonT from grid step k on
RECURSIVE NearestFrom(_, _, _, _)
NearestFrom(k, nearestT, minDistance, cameraPos) ==
  IF k \notin GridSteps THEN nearestT
  ELSE LET distance == DistanceSq(cameraPos, RibbonPoint(GridT(k)))
       IN IF distance < minDistance
          THEN NearestFrom(k + 1, GridT(k), distance, cameraPos)
          ELSE NearestFrom(k + 1, nearestT, minDistance, cameraPos)

\* a search that returns the start of the ribbon
findRibbonStart(cameraPos) == 0

findNearestRibbonT(cameraPos) == NearestFrom(0, 0, Infinity, cameraPos)

\* zoom={0}: the only zoom Index hands to the scene
Zoom == 0
\* transitionDelayRef.current = 2.0
TransitionDelayMs == 2000
\* baseVelocity = 0.05, maxVelocity = 0.12
BaseVelocity == 500
MaxVelocity == 1200

\* a controller that does not notice that the state left tree
LeavingTreeUnseen(state, prev) == FALSE

\* state === 'tree' && prevStateRef.current !== 'tree', and the converse
EnteringTree(state, prev) == state = "tree" /\ prev # "tree"
LeavingTree(state, prev) == state # "tree" /\ prev = "tree"

\* if (transitionDelayRef.current > 0) transitionDelayRef.current -= delta
CountDown(delay, delta) == IF delay > 0 THEN delay - delta ELSE delay

\* baseDistance = max(4, min(35, (state === 'tree' ? 12 : 18) + smoothZoom))
BaseDistance(state, smoothZoom) ==
  Max(4000, Min(35000, (IF state = "tree" THEN 12000 ELSE 18000) + smoothZoom))

\* targetVelocity = baseVelocity + sin(t PI) * (maxVelocity - baseVelocity)
TargetVelocity(t) == BaseVelocity + (SinHalfTurns(t) * (MaxVelocity - BaseVelocity)) \div 1000

\* velocity += (targetVelocity - velocity) * 2.5 * delta
EaseVelocity(v, target, delta) == v + ((target - v) * ((25 * delta) \div 10)) \div 1000

\* ribbonTime += velocity * delta
AdvanceT(t, v, delta) == t + (v * delta) \div 1000

\* if (ribbonTime >= 1): the climb has reached the star
StarReached(t) == t >= TOne

\* the position target and lookAtY while climbing, at tClamped
ClimbTarget(tClamped, smoothZoom) ==
  LET cameraDistance == 5000 + (LayerRadius(tClamped) * 3) \div 2 + smoothZoom \div 2
      cameraAngle == 6 * tClamped + (3 * TOne) \div 10
  IN [x |-> (CosHalfTurns(cameraAngle) * cameraDistance) \div 1000,
      y |-> RibbonY(tClamped) + 1500,
      z |-> (SinHalfTurns(cameraAngle) * cameraDistance) \div 1000,
      lookAtY |-> RibbonY(tClamped)]

\* at the star: starY = 4.4
StarTarget(smoothZoom) == [x |-> 0, y |-> 5400, z |-> 6000 + smoothZoom, lookAtY |-> 4400]

\* handPosition && state === 'galaxy'; handPosition.y is taken as 0.5
HandTarget(handPosition, orbit, baseDistance) ==
  [x |-> (handPosition - 50) * 200, y |-> 2000,
   z |-> (OrbitCos(orbit) * baseDistance) \div 1000, lookAtY |-> 0]

\* a free-rotation target that ignores the orbit rotation
FreeTargetFixed(orbit, baseDistance) == [x |-> 0, y |-> 2000, z |-> baseDistance, lookAtY |-> 0]

\* free rotation; orbitRotation.x is taken as 0
FreeTarget(orbit, baseDistance) ==
  [x |-> (OrbitSin(orbit) * baseDistance) \div 1000, y |-> 2000,
   z |-> (OrbitCos(orbit) * baseDistance) \div 1000, lookAtY |-> 0]

\* the frame deltas of the model, in milliseconds: none, one second, two seconds
Deltas == {0, 1000, 2000}
\* a clock that steps back by a tenth of a second
NegativeDeltas == {-100}
\* the frame deltas next to the pointer source: half a second
DragDeltas == {500}

\* smoothFactor = 1 - Math.exp(-2.5 * delta), for the frame deltas of the model
SmoothFactor(delta) ==
  CASE delta = 0 -> 0
    [] delta = 500 -> 713
    [] delta = 1000 -> 918
    [] delta = 2000 -> 993
    [] delta = -100 -> -284

\* an easing that jumps to its target
EaseSnap(ref, target, smoothFactor) == target

\* ref += (target - ref) * smoothFactor
Ease(ref, target, smoothFactor) == ref + ((target - ref) * smoothFactor) \div 1000

\* a controller that never sets isAtStarRef
AtStarForgotten(star, reached) == star

\* isAtStarRef.current = true when the climb reaches the star
AtStarAfter(star, reached) == star \/ reached

\* the climb along the ribbon: velocity, t and the reached-focal-point edge of a
\* frame in tree whose transition delay has elapsed and that is not at the star
ClimbStep(t0, v0, delta) ==
  LET v == EaseVelocity(v0, TargetVelocity(t0), delta)
      t1 == AdvanceT(t0, v, delta)
  IN [v |-> v, t |-> IF StarReached(t1) THEN TOne ELSE t1, reached |-> StarReached(t1)]

\* the callback of useFrame for the frame delta `delta`
useFrame(delta) ==
  LET state == treeState
      handPosition == IF hg.isTracking THEN hg.handPosition ELSE NoPos
      smoothZoom == smoothZoomRef + ((Zoom - smoothZoomRef) * 5 * delta) \div 1000
      entering == EnteringTree(state, prevStateRef)
      leaving == LeavingTree(state, prevStateRef)
      star0 == IF entering \/ leaving THEN FALSE ELSE isAtStarRef
      v0 == IF entering THEN BaseVelocity ELSE velocityRef
      delay == CountDown(IF entering THEN TransitionDelayMs ELSE transitionDelayRef, delta)
      baseDistance == BaseDistance(state, smoothZoom)
      climbing == state = "tree" /\ delay <= 0 /\ ~star0
      smoothFactor == SmoothFactor(delta)
  IN \E t0 \in {IF entering THEN findNearestRibbonT(positionRef) ELSE ribbonTimeRef} :
     \E c \in {IF climbing THEN ClimbStep(t0, v0, delta)
                ELSE [v |-> v0, t |-> t0, reached |-> FALSE]} :
     \E target \in
         {IF state = "tree" /\ delay <= 0
          THEN (IF ~star0 THEN ClimbTarget(Min(c.t, TOne), smoothZoom)
                ELSE StarTarget(smoothZoom))
          ELSE IF handPosition # NoPos /\ state = "galaxy"
          THEN HandTarget(handPosition, orbitRotation, baseDistance)
          ELSE FreeTarget(orbitRotation, baseDistance)} :
       /\ smoothZoomRef' = smoothZoom
       /\ prevStateRef' = state
       /\ transitionDelayRef' = delay
       /\ velocityRef' = c.v
       /\ ribbonTimeRef' = c.t
       /\ isAtStarRef' = AtStarAfter(star0, c.reached)
       /\ starFocused' = (IF entering \/ leaving THEN <<FALSE>> ELSE <<>>)
                            \o (IF c.reached THEN <<TRUE>> ELSE <<>>)
       /\ posTarget' = [x |-> target.x, y |-> target.y, z |-> target.z]
       /\ positionRef' = [x |-> Ease(positionRef.x, target.x, smoothFactor),
                          y |-> Ease(positionRef.y, target.y, smoothFactor),
                          z |-> Ease(positionRef.z, target.z, smoothFactor)]
       /\ targetRef' = Ease(targetRef, target.lookAtY, smoothFactor)
       /\ climbEdges' = IF state # "tree" \/ entering THEN 0
                        ELSE climbEdges + (IF c.reached THEN 1 ELSE 0)
       /\ lastSeen' = [orbit |-> orbitRotation, target |-> posTarget]

\* what one rendered frame does: the callback of useFrame runs once
RenderFrame(delta) ==
  /\ appMounted
  /\ useFrame(delta)
  /\ op' = [Op("useFrame") EXCEPT !.delta = delta]
  /\ emitted' = <<>>
  /\ UNCHANGED <<appVars, handVars, pointerVars, listeners, platformVars, lastHandEvent,
                 classifyVars, chordPinches, lastPress>>

\* one rendered frame, counted
Frame(delta) ==
  /\ frames < MaxFrames
  /\ frames' = frames + 1
  /\ RenderFrame(delta)

\* one rendered frame of the steady render loop, not counted: the loop never ends
SteadyFrame(delta) ==
  /\ UNCHANGED frames
  /\ RenderFrame(delta)

----------------------------------------------------------------------------
\* detectGesture(landmarks), called on its own
Classify(landmarks) ==
  /\ landmarksArg' = landmarks
  /\ detected' = detectGesture(landmarks)
  /\ op' = Op("detectGesture")
  /\ emitted' = <<>>
  /\ UNCHANGED <<appVars, handVars, pointerVars, listeners, platformVars, lastHandEvent,
                 cameraVars, chordPinches, lastPress>>

----------------------------------------------------------------------------
\* Index: the callbacks it hands to its collaborators

indexFrame == <<cameraPermission, appMounted, handVars, pointerVars, platformVars>>

\* onPhotosChange={setPhotos}: the upload control hands over a photo set of n photos
setPhotos(n) ==
  /\ UNCHANGED sceneVars
  /\ photoCount' = n
  /\ op' = Op("setPhotos")
  /\ emitted' = <<>>
  /\ UNCHANGED <<treeState, focusedPhotoIndex, indexFrame>>
  /\ Commit(FALSE, orbitRotation)

\* an input source calls onGestureChange(g)
GestureEvent(g) ==
  /\ UNCHANGED sceneVars
  /\ handleGestureChange(g)
  /\ op' = Op("handleGestureChange")
  /\ emitted' = <<[src |-> "caller", g |-> g]>>
  /\ UNCHANGED <<photoCount, indexFrame>>
  /\ Commit(FALSE, orbitRotation)

----------------------------------------------------------------------------
Init ==
  /\ treeState = "tree"
  /\ focusedPhotoIndex = NoPhoto
  /\ photoCount = InitialPhotoCount
  /\ orbitRotation = [by |-> "init", val |-> 0]
  /\ cameraPermission = "prompt"
  /\ appMounted = TRUE
  /\ hg = [isTracking |-> FALSE, gesture |-> "none", handPosition |-> NoPos]
  /\ status = "idle"
  /\ lastGestureRef = "none"
  /\ handLandmarkerRef = 0
  /\ videoRef = 0
  /\ animationFrameIdRef = 0
  /\ runs = [i \in Runs |-> NoRun]
  /\ nRuns = 0
  /\ isDragging = FALSE
  /\ simulatedGesture = "none"
  /\ lastClickRef = 0
  /\ dragStartRef = 0
  /\ rotationRef = 0
  /\ isPinchingRef = FALSE
  /\ lastTouchRef = NoPos
  /\ initialPinchDistRef = NoPos
  \* the binding effect ran on mount, with the pointer source enabled
  /\ listeners = AttachListeners(TRUE, [t \in ListenerTypes |-> 0])
  /\ now = StartTime
  /\ buttons = 0
  /\ touches = 0
  /\ op = Op("mount")
  /\ emitted = <<>>
  /\ lastHandEvent = "-"
  /\ chordPinches = [mouse |-> 0, touch |-> 0]
  /\ lastPress = [button |-> -1, at |-> 0, toggled |-> FALSE]
  /\ landmarksArg = NullLandmarks
  /\ detected = "none"
  /\ positionRef = [x |-> 0, y |-> 2000, z |-> 12000]
  /\ targetRef = 0
  /\ ribbonTimeRef = 0
  /\ prevStateRef = "tree"
  /\ transitionDelayRef = 0
  /\ isAtStarRef = FALSE
  /\ velocityRef = 0
  /\ smoothZoomRef = 0
  /\ starFocused = <<>>
  /\ posTarget = [x |-> 0, y |-> 2000, z |-> 12000]
  /\ frames = 0
  /\ climbEdges = 0
  /\ lastSeen = [orbit |-> orbitRotation, target |-> posTarget]

\* The pointer source driven by the mouse.  The camera is never requested, so the
\* hand source never tracks and the pointer source stays enabled.
MouseNext ==
  \/ Tick
  \/ \E b \in Buttons, x \in Xs : MouseDown(b, x)
  \/ \E x \in Xs : MouseMove(x)
  \/ \E b \in Buttons, x \in Xs : MouseUp(b, x)

SpecMouse == Init /\ [][MouseNext]_vars

\* The pointer source driven by a touch screen, the hand source never tracking.
TouchNext ==
  \/ \E x \in Xs, dist \in Dists : TouchStart(x, dist)
  \/ \E x \in Xs, dist \in Dists : TouchMove(x, dist)
  \/ \E x \in Xs : TouchEnd(x)

SpecTouch == Init /\ [][TouchNext]_vars

\* The pointer source driven by a touch screen and the primary mouse button at
\* the same time, the hand source never tracking.
ChordNext ==
  \/ \E x \in Xs, dist \in Dists : TouchStart(x, dist)
  \/ \E x \in Xs, dist \in Dists : TouchMove(x, dist)
  \/ \E x \in Xs : TouchEnd(x)
  \/ MouseDown(0, 0)
  \/ MouseUp(0, 0)

SpecChord == Init /\ [][ChordNext]_vars

\* The pointer source driven by both mouse buttons and a touch screen, the hand
\* source never tracking.  The buttons are pressed and released at x = 0, the
\* fingers touch at x = 0 and 100 px apart, the pointer and the fingers move
\* over Xs and Dists.
PointerNext ==
  \/ \E b \in Buttons : MouseDown(b, 0)
  \/ \E x \in Xs : MouseMove(x)
  \/ \E b \in Buttons : MouseUp(b, 0)
  \/ TouchStart(0, 100)
  \/ \E x \in Xs, dist \in Dists : TouchMove(x, dist)
  \/ TouchEnd(0)

SpecPointer == Init /\ [][PointerNext]_vars

\* The hand source under every interleaving of its caller (enable, disable) with
\* its pending initialization, on the least set of snapshots.
LifeNext ==
  \/ RequestCamera
  \/ CameraGranted
  \/ CameraDenied
  \/ Unmount
  \/ \E i \in Runs : InitVisionOk(i)
  \/ \E i \in Runs : InitModelOk(i)
  \/ \E i \in Runs : InitCameraOk(i)
  \/ \E i \in Runs : InitPlayOk(i, LoopSnapshots)
  \/ \E i \in Runs : InitFail(i)
  \/ \E i \in Runs : DetectFrame(i, LoopSnapshots)

SpecLife == Init /\ [][LifeNext]_vars

\* The hand source on every snapshot, with a caller that disables it only once
\* its initialization has settled (the loop runs, or the initialization failed).
HandNext ==
  \/ (LiveRun # 0 => runs[LiveRun].pc \in {"loop", "error"}) /\ RequestCamera
  \/ CameraGranted
  \/ CameraDenied
  \/ \E i \in Runs : InitVisionOk(i)
  \/ \E i \in Runs : InitModelOk(i)
  \/ \E i \in Runs : InitCameraOk(i)
  \/ \E i \in Runs : InitPlayOk(i, Snapshots)
  \/ \E i \in Runs : InitFail(i)
  \/ \E i \in Runs : DetectFrame(i, Snapshots)

SpecHand == Init /\ [][HandNext]_vars

\* The camera controller under frames of every delta of Deltas, with the state
\* changed by fist and open gesture-change events between the frames.
CameraNext ==
  \/ \E delta \in Deltas : Frame(delta)
  \/ \E g \in {"fist", "open"} : GestureEvent(g)

SpecCamera == Init /\ [][CameraNext]_vars

\* The camera controller with the pointer source: the primary mouse button
\* changes the state by double clicks and drags the orbit rotation.  The button
\* is pressed and released at x = 0, the pointer moves over Xs.
CameraDragNext ==
  \/ \E delta \in DragDeltas : frames < MaxDragFrames /\ Frame(delta)
  \/ MouseDown(0, 0)
  \/ \E x \in Xs : MouseMove(x)
  \/ MouseUp(0, 0)

SpecCameraDrag == Init /\ [][CameraDragNext]_vars

\* The camera controller in all three application states: frames of no time and
\* of two seconds, every gesture-change event.
CameraFocusNext ==
  \/ \E delta \in {0, 2000} : Frame(delta)
  \/ \E g \in {"fist", "open", "pinch"} : GestureEvent(g)

SpecCameraFocus == Init /\ [][CameraFocusNext]_vars

\* The climb with the application state held at tree from the mount on: the
\* render loop keeps delivering frames of half a second, and at most
\* MaxLongFrames frames of two seconds (a stalled tab) come in between. Every
\* frame delta is at least half a second.
SteadyDeltas == {500}

LongDeltas == {2000}

ClimbNext ==
  \/ \E delta \in LongDeltas : frames < MaxLongFrames /\ Frame(delta)
  \/ \E delta \in SteadyDeltas : SteadyFrame(delta)

\* requestAnimationFrame keeps calling the frame callback while the canvas is mounted
SpecClimb ==
  /\ Init
  /\ [][ClimbNext]_vars
  /\ WF_vars(\E delta \in SteadyDeltas : SteadyFrame(delta))

\* The camera controller under a clock that may also step back.
CameraAnyNext ==
  \/ \E delta \in NegativeDeltas \cup {1000} : Frame(delta)
  \/ \E g \in {"fist", "open"} : GestureEvent(g)

SpecCameraAny == Init /\ [][CameraAnyNext]_vars

\* The classifier on every argument of ClassifierInputs.
ClassifyNext == \E landmarks \in ClassifierInputs : Classify(landmarks)

SpecClassify == Init /\ [][ClassifyNext]_vars

\* The gesture callback of Index under every gesture and every photo set.
IndexNext ==
  \/ \E n \in 0..MaxPhotos : setPhotos(n)
  \/ \E g \in Gestures : GestureEvent(g)

SpecIndex == Init /\ [][IndexNext]_vars

\* Both input sources: the primary mouse button, and the hand source with a caller
\* that disables it only once its initialization has settled.
ArbNext ==
  \/ (LiveRun # 0 => runs[LiveRun].pc \in {"loop", "error"}) /\ RequestCamera
  \/ CameraGranted
  \/ Unmount
  \/ \E i \in Runs : InitVisionOk(i)
  \/ \E i \in Runs : InitModelOk(i)
  \/ \E i \in Runs : InitCameraOk(i)
  \/ \E i \in Runs : InitPlayOk(i, ArbSnapshots)
  \/ \E i \in Runs : InitFail(i)
  \/ \E i \in Runs : DetectFrame(i, ArbSnapshots)
  \/ \E x \in Xs : MouseDown(0, x)
  \/ \E x \in Xs : MouseMove(x)
  \/ \E x \in Xs : MouseUp(0, x)

SpecArb == Init /\ [][ArbNext]_vars

----------------------------------------------------------------------------
\* The gesture classifier

\* the number of fingers among index, middle, ring and pinky whose tip lies above
\* its knuckle
ExtendedFingers(lm) == Cardinality({tip \in {8, 12, 16, 20} : lm[tip].y < lm[tip - 3].y})

\* thumb tip and index tip are less than 0.06 apart (6 hundredths)
ThumbTouchesIndex(lm) ==
  (lm[4].x - lm[8].x) * (lm[4].x - lm[8].x) + (lm[4].y - lm[8].y) * (lm[4].y - lm[8].y)
    + (lm[4].z - lm[8].z) * (lm[4].z - lm[8].z) < 6 * 6

\* C11: for a snapshot of at least 21 landmarks the classifier returns pinch if
\* the thumb tip and the index tip are less than 0.06 apart, whatever the other
\* fingers do; otherwise open if at least 3 of the four fingers are extended, fist
\* if at most 1 is, and none if exactly 2 are.  For an absent snapshot and for one
\* of fewer than 21 landmarks it returns none.
C11_ClassifierPrecedence ==
  IF landmarksArg = NullLandmarks \/ Cardinality(DOMAIN landmarksArg) < 21
  THEN detected = "none"
  ELSE /\ ThumbTouchesIndex(landmarksArg) => detected = "pinch"
       /\ ~ThumbTouchesIndex(landmarksArg) =>
            /\ ExtendedFingers(landmarksArg) >= 3 => detected = "open"
            /\ ExtendedFingers(landmarksArg) <= 1 => detected = "fist"
            /\ ExtendedFingers(landmarksArg) = 2 => detected = "none"

\* a hand of 21 landmarks with all four fingers extended and the thumb tip on the
\* index tip has been classified as pinch
C11_Witness ==
  /\ op.h = "detectGesture" /\ detected = "pinch"
  /\ landmarksArg # NullLandmarks /\ Cardinality(DOMAIN landmarksArg) = 21
  /\ ExtendedFingers(landmarksArg) = 4

----------------------------------------------------------------------------
\* The camera controller

\* this step is a frame of the camera controller
IsFrame == op'.h = "useFrame"
\* the frame sees the state tree after a frame that did not, and the converse
FrameEntersTree == treeState = "tree" /\ prevStateRef # "tree"
FrameLeavesTree == treeState # "tree" /\ prevStateRef = "tree"
\* the frame calls onStarFocused(true)
EmitsStarFocused == \E i \in DOMAIN starFocused' : starFocused'[i]

\* C12: within one climb onStarFocused(true) is emitted exactly once: on the frame
\* on which t first reaches 1, and on no later frame while the state stays tree.
C12_StarEdgeOnce ==
  [][IsFrame =>
       /\ EmitsStarFocused =>
            /\ treeState = "tree" /\ ribbonTimeRef' = 10000
            /\ FrameEntersTree \/ ribbonTimeRef < 10000
       /\ treeState = "tree" /\ ribbonTimeRef' = 10000
             /\ (FrameEntersTree \/ ribbonTimeRef < 10000) => EmitsStarFocused
       /\ isAtStarRef /\ treeState = "tree" /\ prevStateRef = "tree" => ~EmitsStarFocused
       /\ climbEdges' <= 1]_vars

\* the star was reached, and a later frame of the same climb, two seconds long,
\* emitted nothing
C12_Witness ==
  /\ op.h = "useFrame" /\ op.delta = 2000 /\ treeState = "tree"
  /\ isAtStarRef /\ climbEdges = 1 /\ starFocused = <<>> /\ ribbonTimeRef = 10000

\* C13 as stated: while the controller is climbing (state tree, transition delay
\* elapsed, focal point not reached) t never decreases from one frame to the
\* next, whatever the frame deltas.
C13_ClimbMonotone ==
  [][IsFrame /\ treeState = "tree" /\ prevStateRef = "tree"
       /\ transitionDelayRef <= 0 /\ ~isAtStarRef => ribbonTimeRef' >= ribbonTimeRef]_vars

\* the refs of the CameraMotionState
motionState ==
  <<positionRef, targetRef, ribbonTimeRef, velocityRef, transitionDelayRef, isAtStarRef,
    smoothZoomRef>>

C15_TargetFrozenInDelay ==
  [][IsFrame /\ treeState = "tree" /\ prevStateRef = "tree" /\ transitionDelayRef' > 0 =>
       posTarget' = posTarget /\ ribbonTimeRef' = ribbonTimeRef]_vars

\* C15 (amended): on every frame in tree on which the transition delay has not
\* elapsed, t and the velocity do not advance, and the camera position target is
\* the free-rotation target of the current orbit rotation at distance 12:
\* (sin(orbit.y) * 12, 2, cos(orbit.y) * 12).  It keeps the value of the frame
\* before as long as the orbit rotation is the one that frame read, and follows
\* the orbit rotation when the pointer drags it.
C15_DelayTargetFollowsOrbit ==
  [][IsFrame /\ treeState = "tree" /\ transitionDelayRef' > 0 =>
       /\ posTarget' = [x |-> (OrbitSin(orbitRotation) * 12000) \div 1000, y |-> 2000,
                        z |-> (OrbitCos(orbitRotation) * 12000) \div 1000]
       /\ prevStateRef = "tree" =>
            /\ UNCHANGED <<ribbonTimeRef, velocityRef>>
            /\ orbitRotation = lastSeen.orbit => posTarget' = posTarget]_vars

\* the frame after the one that saw tree entered, the delay not elapsed: the
\* pointer has dragged the orbit rotation and the target has moved
C15_Witness ==
  /\ op.h = "useFrame" /\ treeState = "tree" /\ transitionDelayRef = 1000
  /\ lastSeen.target # posTarget /\ ribbonTimeRef > 0

\* C16 as stated: a frame with a negative frame delta changes neither t nor the
\* smoothed state (smoothed zoom, velocity, transition delay, eased position and
\* look-at target).  Checked on the frames that see the state of the frame before.
C16_NegativeDeltaNoOp ==
  [][IsFrame /\ op'.delta < 0 /\ treeState = prevStateRef =>
       UNCHANGED <<ribbonTimeRef, smoothZoomRef, velocityRef, transitionDelayRef,
                   positionRef, targetRef>>]_vars

\* C20 as stated: the pointer source emits pinch at most once per chord
\* engagement: after it has emitted pinch for both mouse buttons held, or for two
\* touches whose separation changed by more than 15 px, it emits no further pinch
\* until a release has ended that chord.
C20_PinchOncePerChord == chordPinches.mouse <= 1 /\ chordPinches.touch <= 1

\* C21: the pointer source changes the orbit rotation (and its own accumulated
\* rotation) only on a move event of a single-button drag (dragging, the primary
\* button alone held) or of a single-finger drag, and only while the application
\* state is not focus; every press, release and chord event and every event in
\* focus leaves it unchanged.
C21_OrbitOnlyOnDragMove ==
  [][orbitRotation' # orbitRotation \/ rotationRef' # rotationRef =>
       /\ treeState # "focus"
       /\ \/ op'.h = "handleMouseMove" /\ isDragging /\ buttons = 1
          \/ op'.h = "handleTouchMove" /\ touches = 1]_vars

\* a move of the mouse in focus, the primary button alone held after the chord
\* that focused the photo: the orbit rotation is still the one dragged before
C21_Witness ==
  /\ op.h = "handleMouseMove" /\ treeState = "focus" /\ isDragging /\ buttons = 1
  /\ orbitRotation = PointerOrbit(rotationRef) /\ rotationRef # 0

\* C22 as stated: the cleanup stops the polling loop before it releases the video
\* element, the capture stream and the detector, so no detection callback ever
\* runs the detector against a released video, a stopped stream or a closed
\* detector.
C22_NoDetectionOnReleased ==
  [][op'.h \in {"detectFrame", "initPlay"} /\ op'.snap # "skip" =>
       /\ runs'[videoRef'].video = "attached"
       /\ runs'[videoRef'].stream = "live"
       /\ runs'[handLandmarkerRef'].lm = "open"]_vars

\* C23 as stated: the pointer source toggles the state directly only on a
\* double-click of the primary button: the press is a primary press, the press
\* before it was a primary press less than 300 ms earlier, and that press did not
\* itself complete a double-click.
C23_ToggleOnlyOnPrimaryDoubleClick ==
  [][op'.h = "handleMouseDown" /\ Toggled =>
       /\ op'.button = 0 /\ lastPress.button = 0
       /\ now - lastPress.at < 300
       /\ ~lastPress.toggled]_vars

\* C24 as stated: the focused-photo selection is non-empty only while the
\* application state is focus: every transition that leaves focus clears it.
C24_SelectionOnlyInFocus == focusedPhotoIndex # NoPhoto => treeState = "focus"

\* the step is an event of a single-button drag (a press that records itself as
\* a click and starts to drag, a move or a release with no chord held) or of a
\* single-finger drag
DragStep ==
  \/ op'.h = "handleMouseDown" /\ isDragging' /\ lastClickRef' = now
  \/ op'.h \in {"handleMouseMove", "handleMouseUp"} /\ buttons # 3
  \/ op'.h \in {"handleTouchStart", "handleTouchMove", "handleTouchEnd"}
       /\ touches <= 1 /\ touches' <= 1

\* C25: an event of a single-button or single-finger drag never changes the
\* application state and forwards no gesture-change event, although the pointer
\* source shows 'open' as simulated gesture; the pointer source never forwards
\* 'open' at all.
C25_DragKeepsState ==
  [][/\ DragStep => treeState' = treeState /\ emitted' = <<>>
     /\ emitted' # <<>> /\ emitted'[1].src = "pointer" => emitted'[1].g = "pinch"]_vars

\* a drag begun in tree has rotated the orbit: 'open' is shown, the state is tree
C25_Witness ==
  /\ op.h = "handleMouseMove" /\ isDragging /\ buttons = 1
  /\ simulatedGesture = "open" /\ treeState = "tree"
  /\ rotationRef # 0 /\ orbitRotation = PointerOrbit(rotationRef)

\* C26: after every frame of the camera controller, if the reached-focal-point
\* flag is true then the application state that frame saw is tree and t is 1; a
\* frame that sees galaxy or focus leaves the flag false.
C26_StarFlagOnlyInTree ==
  [][IsFrame =>
       /\ isAtStarRef' => treeState = "tree" /\ ribbonTimeRef' = 10000
       /\ treeState \in {"galaxy", "focus"} => ~isAtStarRef']_vars

\* the star was reached, the state went on to focus, and a frame that saw focus
\* has cleared the flag
C26_Witness ==
  /\ op.h = "useFrame" /\ treeState = "focus" /\ prevStateRef = "focus"
  /\ ~isAtStarRef /\ ribbonTimeRef = 10000 /\ starFocused = <<FALSE>>

\* C27 as stated: while the application state stays tree and frames keep
\* arriving, each frame delta at least half a second, the camera controller
\* eventually reaches the focal point: t = 1 and the reached-focal-point flag set.
C27_ClimbReachesStar == <>(isAtStarRef /\ ribbonTimeRef = TOne)

\* C17 as stated: in every reachable state 0 <= t <= 1.
C17_TInUnitInterval == 0 <= ribbonTimeRef /\ ribbonTimeRef <= 10000

\* C18 as stated: the climb velocity is never negative, for every sequence of
\* non-negative frame deltas.
C18_VelocityNonNegative == velocityRef >= 0

\* t is a grid value of the search that no other grid value beats for cameraPos
IsNearestOnRibbon(t, cameraPos) ==
  /\ t \in {200 * k : k \in 0..49}
  /\ \A k \in 0..49 :
       DistanceSq(cameraPos, RibbonPoint(t)) <= DistanceSq(cameraPos, RibbonPoint(200 * k))

\* C19: on the first frame that sees tree after a frame that did not, the
\* controller sets t to the result of the nearest-point search for the camera
\* position, the transition delay to 2.0, the velocity to 0.05 and clears the
\* reached-focal-point flag (the frame then counts its own delta off the delay,
\* and a delta of 2 s or more lets the climb start from these values at once).
\* A frame that sees tree after a frame that saw tree resets none of them.
C19_ResetOnTreeEntry ==
  [][IsFrame /\ treeState = "tree" =>
       /\ FrameEntersTree =>
            /\ transitionDelayRef' = 2000 - op'.delta
            /\ starFocused'[1] = FALSE
            /\ op'.delta < 2000 =>
                 /\ IsNearestOnRibbon(ribbonTimeRef', positionRef)
                 /\ velocityRef' = 500 /\ ~isAtStarRef'
            /\ op'.delta >= 2000 =>
                 \E t0 \in {200 * k : k \in 0..49} :
                   /\ IsNearestOnRibbon(t0, positionRef)
                   /\ velocityRef' = EaseVelocity(500, TargetVelocity(t0), op'.delta)
                   /\ ribbonTimeRef' =
                        Min(10000, t0 + (velocityRef' * op'.delta) \div 1000)
       /\ ~FrameEntersTree =>
            /\ transitionDelayRef' <= transitionDelayRef
            /\ isAtStarRef => isAtStarRef'
            /\ FALSE \notin {starFocused'[i] : i \in DOMAIN starFocused'}
            /\ isAtStarRef \/ transitionDelayRef' > 0 =>
                 UNCHANGED <<ribbonTimeRef, velocityRef>>]_vars

\* tree was entered from galaxy by a frame one second long: t is off the start
\* of the ribbon, one second of the delay is left
C19_Witness ==
  /\ op.h = "useFrame" /\ op.delta = 1000 /\ treeState = "tree"
  /\ starFocused = <<FALSE>> /\ transitionDelayRef = 1000
  /\ ribbonTimeRef > 0 /\ velocityRef = 500 /\ ~isAtStarRef

----------------------------------------------------------------------------
\* The application-state transition table and the photo selection

\* the gesture-change event handed to handleGestureChange in this step
GestureOf(e) == IF e = <<>> THEN "-" ELSE e[1].g

\* the table of section 4.4, row by row: <<state, gesture, next state>>
TransitionRows ==
  { <<"tree", "none", "tree">>,     <<"galaxy", "none", "galaxy">>,
    <<"focus", "none", "focus">>,
    <<"tree", "fist", "tree">>,     <<"galaxy", "fist", "tree">>,
    <<"focus", "fist", "tree">>,
    <<"tree", "open", "galaxy">>,   <<"galaxy", "open", "galaxy">>,
    <<"focus", "open", "galaxy">>,
    <<"tree", "pinch", "tree">>,    <<"galaxy", "pinch", "focus">>,
    <<"focus", "pinch", "galaxy">> }

\* C1: for each of the 3x4 combinations of application state and gesture-change
\* event, handleGestureChange sets exactly the next state of the table: fist ->
\* tree and open -> galaxy from any state, pinch -> focus from galaxy, pinch ->
\* galaxy from focus, and no change for pinch in tree and for none in any state.
C1_TransitionTable ==
  [][op'.h = "handleGestureChange" =>
       <<treeState, GestureOf(emitted'), treeState'>> \in TransitionRows]_vars

\* a pinch in tree has been handled and the state is still tree, with no photo
\* selected, for a photo set that is not the initial one
C1_Witness ==
  /\ op.h = "handleGestureChange" /\ GestureOf(emitted) = "pinch"
  /\ treeState = "tree" /\ focusedPhotoIndex = NoPhoto /\ photoCount = 1

\* a pinch gesture-change event moves the state from galaxy to focus in this step
PinchSelects ==
  /\ op'.h = "handleGestureChange" /\ GestureOf(emitted') = "pinch"
  /\ treeState = "galaxy" /\ treeState' = "focus"

\* C2 as stated: whenever a pinch moves the state from galaxy to focus, the
\* selected index lies in [0, min(photoCount, 12)), for every photo count
\* including 0.
C2_IndexInPhotoSet ==
  [][PinchSelects =>
       0 <= focusedPhotoIndex' /\ focusedPhotoIndex' < Min(photoCount, 12)]_vars

\* C2 (amended): whenever a pinch moves the state from galaxy to focus, the
\* selected index lies in [0, min(photoCount, 12)) if the photo set is not empty,
\* and in [0, 12) if the photo set is empty.
C2_IndexInRange ==
  [][PinchSelects =>
       /\ 0 <= focusedPhotoIndex'
       /\ photoCount > 0 => focusedPhotoIndex' < Min(photoCount, 12)
       /\ photoCount = 0 => focusedPhotoIndex' < 12]_vars

\* a pinch in galaxy has selected the last of the 12 candidates of a set of more
\* than 12 photos
C2_Witness ==
  /\ op.h = "handleGestureChange" /\ GestureOf(emitted) = "pinch"
  /\ treeState = "focus" /\ photoCount > 12 /\ focusedPhotoIndex = 11

----------------------------------------------------------------------------
\* The double-click shortcut of the pointer source

\* the pointer source handles a press of the primary button in this step, less
\* than 300 ms after the press it recorded last
SecondPress ==
  /\ op'.h = "handleMouseDown" /\ op'.button = 0
  /\ lastClickRef # 0 /\ now - lastClickRef < 300

\* the state is set directly; no gesture-change event, no drag started
SetsStateDirectly ==
  /\ treeState = "tree" => treeState' = "galaxy"
  /\ treeState = "galaxy" => treeState' = "tree"
  /\ treeState = "focus" => treeState' = "galaxy"
  /\ emitted' = <<>>
  /\ isDragging' = isDragging /\ dragStartRef' = dragStartRef

\* C3 as stated: a primary-button press less than 300 ms after the previous
\* recorded press sets the state directly (tree -> galaxy, galaxy -> tree, focus
\* -> galaxy), emits no gesture-change event and starts no drag.
C3_SecondPressSetsState == [][SecondPress => SetsStateDirectly]_vars

\* C3 (amended): a primary-button press less than 300 ms after the previous
\* recorded press, made while the secondary button is not held, sets the state
\* directly (tree -> galaxy, galaxy -> tree, focus -> galaxy), emits no
\* gesture-change event and starts no drag.  With the secondary button held the
\* press is a pinch chord instead.
C3_DoubleClick ==
  [][/\ SecondPress /\ ~Held(2) => SetsStateDirectly
     /\ SecondPress /\ Held(2) =>
          /\ treeState' = GestureNextState(treeState, "pinch")
          /\ isPinchingRef'
          /\ ~isPinchingRef => GestureOf(emitted') = "pinch"]_vars

\* a double click in focus has set the state to galaxy; the photo is still selected
C3_Witness ==
  /\ op.h = "handleMouseDown" /\ op.button = 0 /\ buttons = 1 /\ lastClickRef = 0
  /\ treeState = "galaxy" /\ focusedPhotoIndex # NoPhoto

----------------------------------------------------------------------------
\* Gesture-change events of the hand source

\* C4: the hand source's gesture-change events are edge-triggered.  A snapshot
\* with a hand emits an event if and only if its classified gesture differs from
\* the last-emitted slot, the event carries that gesture, the slot then holds it,
\* and the event differs from the hand source's previous event.
C4_EdgeTriggered ==
  [][op'.snap = "hand" =>
       /\ (emitted' # <<>>) <=> (hg'.gesture # lastGestureRef)
       /\ emitted' # <<>> =>
            /\ emitted' = <<[src |-> "hand", g |-> hg'.gesture]>>
            /\ hg'.gesture # lastHandEvent
       /\ lastGestureRef' = hg'.gesture]_vars

\* the same classified gesture in two snapshots in a row: the second emits nothing
C4_Witness ==
  /\ op.snap = "hand" /\ emitted = <<>>
  /\ lastHandEvent = hg.gesture /\ hg.gesture = "pinch"

\* C5 as stated: after a snapshot is processed, isTracking is true if the
\* snapshot contains a hand and false if it does not.
C5_TrackingFollowsSnapshot ==
  /\ op.snap = "hand" => hg.isTracking
  /\ op.snap = "nohand" => ~hg.isTracking

\* C6 as stated: a snapshot without a hand that follows a snapshot with a hand,
\* while the last emitted gesture is not none, emits a none event and resets the
\* last-emitted slot to none.
C6_NoneEdgeOnLoss ==
  [][op.snap = "hand" /\ op'.snap = "nohand" /\ lastGestureRef # "none" =>
       /\ emitted' = <<[src |-> "hand", g |-> "none"]>>
       /\ lastGestureRef' = "none"]_vars

----------------------------------------------------------------------------
\* Arbitration between the two input sources

PointerHandlers ==
  {"handleMouseDown", "handleMouseMove", "handleMouseUp",
   "handleTouchStart", "handleTouchMove", "handleTouchEnd"}

\* C7: at every instant at most one input source is active.  The pointer source
\* handles a mouse or touch event only while isTracking is false: while
\* isTracking is true such an event changes neither the application state nor the
\* orbit rotation and emits no gesture.  The hand source writes the orbit
\* rotation only while isTracking is true.
C7_OneSourceActive ==
  [][/\ op'.h \in PointerHandlers => ~hg.isTracking
     /\ op'.h \in PointerHandlers \cup {"unhandled"} /\ hg.isTracking =>
          /\ UNCHANGED <<treeState, focusedPhotoIndex, orbitRotation>>
          /\ emitted' = <<>>
     /\ orbitRotation' # orbitRotation /\ orbitRotation'.by = "pointer" =>
          ~hg.isTracking /\ ~hg'.isTracking
     /\ orbitRotation' # orbitRotation /\ orbitRotation'.by = "hand" =>
          hg'.isTracking]_vars

\* the pointer has turned the scene, then the hand source took over the orbit
\* rotation, and a mouse event that arrived while it tracks was not handled
C7_Witness ==
  /\ op.h = "unhandled" /\ appMounted /\ hg.isTracking
  /\ rotationRef # 0 /\ orbitRotation.by = "hand"

----------------------------------------------------------------------------
\* Failure of the hand source's initialization

PointerAttached == \A t \in NamedTypes : listeners[t] > 0

\* run i fails in this step
Fails(i) == runs[i].pc # "error" /\ runs'[i].pc = "error"

\* C8 as stated: once model initialization or camera acquisition of a run has
\* failed, status is 'error' and stays 'error', isTracking is false and stays
\* false, the pointer source stays enabled, the failed run never starts its loop
\* and no new run is started.
C8_FailureIsTerminal ==
  [][(\E i \in Runs : runs[i].pc = "error") /\ appMounted =>
       /\ status' = "error" /\ ~hg'.isTracking
       /\ appMounted' => PointerAttached'
       /\ \A i \in Runs : runs[i].pc = "error" => runs'[i].pc = "error"
       /\ nRuns' = nRuns]_vars

\* C8 (amended): when model initialization or camera acquisition of a run fails,
\* status becomes 'error', isTracking becomes false and the pointer source is
\* enabled; the failed run never starts its detection loop and the failure starts
\* no new run.  While the failed run is the latest run, status stays 'error':
\* only the caller enabling the source again starts a run that changes it.
C8_FailureAbsorbed ==
  [][/\ \A i \in Runs : Fails(i) /\ appMounted =>
          /\ status' = "error" /\ ~hg'.isTracking
          /\ PointerAttached'
          /\ nRuns' = nRuns
          /\ \A j \in Runs : j # i => runs'[j] = runs[j]
     /\ \A i \in Runs : runs[i].pc = "error" => runs'[i].pc = "error"
     /\ status = "error" /\ status' # "error" =>
          \/ op'.h = "cameraGranted" /\ nRuns' = nRuns + 1
          \/ op'.run # 0 /\ runs[op'.run].pc \notin {"error", "none"}]_vars

\* a run has failed while the source is enabled: status is 'error', isTracking is
\* false and the pointer source is enabled
C8_Witness ==
  /\ appMounted /\ op.h = "initFail" /\ runs[op.run].pc = "error"
  /\ status = "error" /\ ~hg.isTracking /\ PointerAttached

----------------------------------------------------------------------------
\* Disabling the hand source

\* C9 as stated: after the hand source is disabled, whenever that happens, no
\* snapshot is processed any more by the disabled run, and a capture stream it
\* acquired, before or after the disable, is stopped.
C9_DisableReleases ==
  /\ op.snap # "skip" => runs[op.run].mounted /\ LiveRun = op.run
  /\ \A i \in Runs :
       runs[i].pc # "none" /\ ~runs[i].mounted => runs[i].stream # "live"

----------------------------------------------------------------------------
\* The window listeners of the pointer source

\* C10 as stated: once the pointer source is disabled or unmounted, none of the
\* window listeners it attached is still attached, for each of the seven
\* listener types and after any number of enable / disable or re-binding cycles.
C10_NoDanglingListeners ==
  ~appMounted \/ ~PointerEnabled(hg) => \A t \in ListenerTypes : listeners[t] = 0

====
